---- MODULE Spec2Model ----
(***************************************************************************)
(* HuntPilot backend: the job store and the resume/job keyword match.      *)
(*                                                                         *)
(* State: the users collection (only the fields the job routes read), the  *)
(* jobapplications collection, the ObjectId/Date.now source, and the last  *)
(* request handled together with the response it was given.                *)
(* One action per route of jobRouter; every action is auth followed by the *)
(* controller.                                                             *)
(*                                                                         *)
(* A request body is a record of optional fields; an optional field is a   *)
(* set holding no value (field absent) or one value (field present).       *)
(* The free-text fields location and notes, which no code path inspects,   *)
(* are left out of the job document.                                       *)
(***************************************************************************)
EXTENDS Integers, Sequences, FiniteSets, TLC

VARIABLES users, jobs, nextId, req, res

\* the requests that are answered after an await: the tailoring request, the
\* keyword-extraction request, the resume uploads and the job updates in
\* flight, with the resume file fields of the user records and the files of
\* the upload directory
VARIABLES tailor, extract, uploads, updates, profile, files

inflight == <<tailor, extract, uploads, updates, profile, files>>

\* the accounts of the users collection with the signup requests in flight
\* and the last login request, the resume deletions in flight and the last
\* resume read request, and on the client the auth context with
\* localStorage and the route shown, and the AddJob form
VARIABLES accounts, signups, session, deletes, reads, client, form

later == <<accounts, signups, session, deletes, reads, client, form>>

vars == <<users, jobs, nextId, req, res, tailor, extract, uploads, updates,
          profile, files, accounts, signups, session, deletes, reads, client,
          form>>

----------------------------------------------------------------------------
(* Bounds *)

MaxJobs == 2
MaxKwLen == 3
LongLen == 40
LongMatch == 23
MaxExp == 2
MaxEnh == 2
MaxEdits == 3

----------------------------------------------------------------------------
(* Input domains *)

Users == {"A", "B"}

JobIds == 1..MaxJobs

Keywords == {"python", "Python", "sql"}

StatusEnum == {"applied", "interviewing", "offer", "rejected"}

Range(s) == {s[i] : i \in DOMAIN s}

SeqsUpTo(S, n) == UNION {[1..k -> S] : k \in 0..n}

ResumeLists == {<<>>, <<"python">>}

\* a job with LongLen distinct keywords, and a resume holding the first
\* LongMatch of them
LongJ == [i \in 1..LongLen |-> "k" \o ToString(i)]

LongU == [i \in 1..LongMatch |-> "k" \o ToString(i)]

MatchLists == SeqsUpTo(Keywords, MaxKwLen) \cup {LongJ, LongU}

Opt(S) == {{}} \cup {{v} : v \in S}

\* request bodies: any of userId, position and keywords present or absent
Bodies ==
  [userId : Opt(Users), position : Opt({"dev"}), company : {{"acme"}},
   status : {{}}, keywords : Opt(ResumeLists)]

NoToken == [id |-> "", sig |-> "none"]

Tokens == {NoToken} \cup [id : Users, sig : {"good", "forged"}]

----------------------------------------------------------------------------
(* Responses *)

Reply(code, kind, msg, docs, m, x, s) ==
  [status |-> code, kind |-> kind, message |-> msg, jobs |-> docs,
   matched |-> m, missing |-> x, score |-> s]

NoRes == Reply(0, "none", "", <<>>, <<>>, <<>>, 0)

Err(code, msg) == Reply(code, "error", msg, <<>>, <<>>, <<>>, 0)

Msg(code, msg) == Reply(code, "message", msg, <<>>, <<>>, <<>>, 0)

JobReply(code, doc) == Reply(code, "job", "", <<doc>>, <<>>, <<>>, 0)

JobsReply(docs) == Reply(200, "jobs", "", docs, <<>>, <<>>, 0)

MatchReply(m, x, s) == Reply(200, "match", "", <<>>, m, x, s)

NoReq == [op |-> "none", token |-> NoToken, id |-> 0]

Request(op, tok, id) == [op |-> op, token |-> tok, id |-> id]

----------------------------------------------------------------------------
(* middleware/auth.js *)

jwtVerify(tok) == tok.sig = "good"

authHeaderOnly(tok) ==
  IF tok = NoToken THEN Err(401, "No token provided") ELSE NoRes

\* the response auth gives instead of calling next(); NoRes when it calls next()
auth(tok) ==
  IF tok = NoToken THEN Err(401, "No token provided")
  ELSE IF ~jwtVerify(tok) THEN Err(401, "Invalid token")
  ELSE NoRes

Rejected(op, tok) ==
  /\ auth(tok) # NoRes
  /\ req' = Request(op, tok, 0)
  /\ res' = auth(tok)
  /\ UNCHANGED <<users, jobs, nextId>>
  /\ UNCHANGED inflight
  /\ UNCHANGED later

----------------------------------------------------------------------------
(* controllers/resumeController.js: the inputs of tailorResume *)

\* an experience entry of the submitted resumeData; keywords is the field an
\* entry of an earlier tailoring carries
Entries ==
  {[title |-> "Dev", company |-> "acme", duration |-> "2y",
    description |-> "built it", keywords |-> {}],
   [title |-> "QA", company |-> "beta", duration |-> "1y",
    description |-> "tested it", keywords |-> {<<"sql">>}]}

ExpLists == SeqsUpTo(Entries, MaxExp)

ResumeDatas == [summary : Opt({"mine"}), experience : Opt(ExpLists)]

\* req.body of POST /api/resume/tailor; jobDescription, jobTitle and company
\* are only forwarded to the service
TailorBodies == [resumeData : Opt(ResumeDatas)]

\* one element of aiResult.enhanced_experience
Enhancements ==
  [enhanced_description : Opt({"", "better"}), optimized_title : Opt({"Senior"}),
   relevant_keywords : Opt({<<"python">>})]

EnhLists == SeqsUpTo(Enhancements, MaxEnh)

AiResults ==
  [tailored_summary : Opt({"tailored"}), enhanced_experience : Opt(EnhLists),
   match_score : Opt({85})]

NoAi == [tailored_summary |-> {}, enhanced_experience |-> {}, match_score |-> {}]

\* how the call to the external service ends: fetch rejects, the service
\* answers a non-2xx status, a 2xx whose body is not JSON, or a 2xx with aiResult
Outcomes ==
  [kind : {"unreachable", "badstatus", "badjson"}, ai : {NoAi}]
    \cup [kind : {"ok"}, ai : AiResults]

NoOut == [status |-> 0, success |-> {}, message |-> "", tailored |-> {}]

TailorIdle ==
  [pc |-> "idle", token |-> NoToken, body |-> [resumeData |-> {}],
   svc |-> "none", ai |-> NoAi, calls |-> 0, out |-> NoOut]

\* res.json({message, keywords}) / res.status(code).json({error})
Answer(code, error, message, keywords) ==
  [status |-> code, error |-> error, message |-> message, keywords |-> keywords]

NoAnswer == Answer(0, "", "", <<>>)

ExtractIdle == [pc |-> "idle", svc |-> "none", out |-> NoAnswer]

NoFile == [path |-> 0, mimetype |-> "", parses |-> FALSE, originalname |-> ""]

UploadIdle ==
  [pc |-> "idle", handler |-> "", token |-> NoToken, file |-> NoFile,
   svc |-> "none", keywords |-> <<>>, old |-> {}, out |-> NoAnswer]

NoBody == [userId |-> {}, position |-> {}, company |-> {}, status |-> {}, keywords |-> {}]

UpdateIdle ==
  [pc |-> "idle", token |-> NoToken, id |-> 0, body |-> NoBody,
   overlap |-> FALSE, out |-> NoRes]

UploadSlots == 1..2

UpdateSlots == 1..2

\* res.status(code).json({message}) / {user} / {token, user} of authController
AuthAnswer(code, message, user, token) ==
  [status |-> code, message |-> message, user |-> user, token |-> token]

NoAuthAnswer == AuthAnswer(0, "", {}, {})

SignupIdle ==
  [pc |-> "idle", name |-> "", email |-> "", password |-> "", out |-> NoAuthAnswer]

SignupSlots == 1..2

SessionIdle == [email |-> "", password |-> "", out |-> NoAuthAnswer]

DeleteIdle ==
  [pc |-> "idle", handler |-> "", token |-> NoToken, old |-> {}, out |-> NoAnswer]

DeleteSlots == {1}

\* the response of a resume read: res.json({resumeFilename, resumeKeywords}),
\* res.download(path, filename), res.json({success, resumeData}) or an error
ReadAnswer(code, error, filename, keywords, sent) ==
  [status |-> code, error |-> error, filename |-> filename,
   keywords |-> keywords, sent |-> sent]

NoRead == [op |-> "none", handler |-> "", token |-> NoToken,
           out |-> ReadAnswer(0, "", "", <<>>, {})]

\* the browser opening /login with an empty localStorage, before the mount
\* effect has run
ClientIdle ==
  [mounted |-> FALSE, token |-> {}, user |-> {},
   storage |-> [token |-> {}, user |-> {}], path |-> "/login", shown |-> "/login"]

\* the AddJob form as first rendered
FormIdle ==
  [description |-> "", suggestedKeywords |-> <<>>, selectedKeywords |-> <<>>,
   keywordError |-> FALSE, timer |-> {}, fetches |-> {}, edits |-> 0]

\* no account, no auth request, no resume request, no client
Unused ==
  /\ accounts = {}
  /\ signups = [s \in SignupSlots |-> SignupIdle]
  /\ session = SessionIdle
  /\ deletes = [s \in DeleteSlots |-> DeleteIdle]
  /\ reads = NoRead
  /\ client = ClientIdle
  /\ form = FormIdle

\* no request in flight, no resume uploaded
Quiet ==
  /\ Unused
  /\ tailor = TailorIdle
  /\ extract = ExtractIdle
  /\ uploads = [s \in UploadSlots |-> UploadIdle]
  /\ updates = [s \in UpdateSlots |-> UpdateIdle]
  /\ profile = [u \in Users |-> [resumeFilename |-> {}, resumePath |-> {}]]
  /\ files = [dir |-> {}, next |-> 1]

----------------------------------------------------------------------------
(* Initial state *)

Init ==
  /\ users \in [Users -> [resumeKeywords : ResumeLists]]
  /\ jobs = {}
  /\ nextId = 1
  /\ req = NoReq
  /\ res = NoRes
  /\ Quiet

----------------------------------------------------------------------------
(* models/jobApplication.js and the mongoose queries of jobController.js *)

Get(opt, default) == IF opt = {} THEN default ELSE CHOOSE v \in opt : TRUE

\* {userId: req.user.id, ...req.body}: a later key of the literal wins
Spread(uid, body) ==
  [body EXCEPT !.userId = IF body.userId # {} THEN body.userId ELSE {uid}]

\* new JobApplication(obj): schema defaults for the absent paths
JobApplication(obj, id, now) ==
  [_id |-> id,
   userId |-> obj.userId,
   position |-> obj.position,
   company |-> obj.company,
   status |-> {Get(obj.status, "applied")},
   keywords |-> {Get(obj.keywords, <<>>)},
   appliedDate |-> now]

Required(opt) == opt # {} /\ opt # {""}

\* the validation save() runs
Validates(doc) ==
  /\ Required(doc.userId)
  /\ Required(doc.position)
  /\ Required(doc.company)
  /\ doc.status \subseteq StatusEnum

\* the document as stored and as serialised in a response
Stored(doc) ==
  [_id |-> doc._id,
   userId |-> Get(doc.userId, ""),
   position |-> Get(doc.position, ""),
   company |-> Get(doc.company, ""),
   status |-> Get(doc.status, ""),
   keywords |-> Get(doc.keywords, <<>>),
   appliedDate |-> doc.appliedDate]

\* find({userId})
Find(uid) == {j \in jobs : j.userId = uid}

FindOneAnyOwner(id, uid) == {j \in jobs : j._id = id}

\* findOne({_id, userId}): the set of matches (at most one, _id is unique)
FindOne(id, uid) == {j \in jobs : j._id = id /\ j.userId = uid}

\* findById(id)
FindById(id) == {j \in jobs : j._id = id}

\* the update document req.body applied with $set to a stored document;
\* findOneAndUpdate runs no validators
ApplyUpdate(j, body) ==
  [_id |-> j._id,
   userId |-> Get(body.userId, j.userId),
   position |-> Get(body.position, j.position),
   company |-> Get(body.company, j.company),
   status |-> Get(body.status, j.status),
   keywords |-> Get(body.keywords, j.keywords),
   appliedDate |-> j.appliedDate]

\* sort({appliedDate: -1})
RECURSIVE SortByDateDesc(_)
SortByDateDesc(S) ==
  IF S = {} THEN <<>>
  ELSE LET top == CHOOSE j \in S : \A k \in S : k.appliedDate <= j.appliedDate
       IN  <<top>> \o SortByDateDesc(S \ {top})

----------------------------------------------------------------------------
(* controllers/jobController.js: the CRUD handlers *)

createJob(tok, body) ==
  /\ auth(tok) = NoRes
  /\ nextId <= MaxJobs
  /\ req' = Request("createJob", tok, nextId)
  /\ LET job == JobApplication(Spread(tok.id, body), nextId, nextId)
     IN  IF Validates(job)
         THEN /\ jobs' = jobs \cup {Stored(job)}
              /\ nextId' = nextId + 1
              /\ res' = JobReply(201, Stored(job))
         ELSE /\ res' = Err(500, "Failed to create job")
              /\ UNCHANGED <<jobs, nextId>>
  /\ UNCHANGED users
  /\ UNCHANGED inflight
  /\ UNCHANGED later

getJobs(tok) ==
  /\ auth(tok) = NoRes
  /\ req' = Request("getJobs", tok, 0)
  /\ res' = JobsReply(SortByDateDesc(Find(tok.id)))
  /\ UNCHANGED <<users, jobs, nextId>>
  /\ UNCHANGED inflight
  /\ UNCHANGED later

getJobById(tok, id) ==
  /\ auth(tok) = NoRes
  /\ req' = Request("getJobById", tok, id)
  /\ LET found == FindOne(id, tok.id)
     IN  IF found = {}
         THEN res' = Err(404, "Job not found")
         ELSE res' = JobReply(200, CHOOSE j \in found : TRUE)
  /\ UNCHANGED <<users, jobs, nextId>>
  /\ UNCHANGED inflight
  /\ UNCHANGED later

updateJob(tok, id, body) ==
  /\ auth(tok) = NoRes
  /\ req' = Request("updateJob", tok, id)
  /\ LET found == FindOne(id, tok.id)
     IN  IF found = {}
         THEN /\ res' = Err(404, "Job not found")
              /\ UNCHANGED jobs
         ELSE LET old == CHOOSE j \in found : TRUE
                  new == ApplyUpdate(old, body)
              IN  /\ jobs' = (jobs \ {old}) \cup {new}
                  /\ res' = JobReply(200, new)
  /\ UNCHANGED <<users, nextId>>
  /\ UNCHANGED inflight
  /\ UNCHANGED later

deleteJobMany(tok, id) ==
  /\ auth(tok) = NoRes
  /\ req' = Request("deleteJob", tok, id)
  /\ LET found == FindOne(id, tok.id)
     IN  IF found = {}
         THEN /\ res' = Err(404, "Job not found")
              /\ UNCHANGED jobs
         ELSE /\ jobs' = jobs \ Find(tok.id)
              /\ res' = Msg(200, "Job deleted")
  /\ UNCHANGED <<users, nextId>>
  /\ UNCHANGED inflight
  /\ UNCHANGED later

deleteJob(tok, id) ==
  /\ auth(tok) = NoRes
  /\ req' = Request("deleteJob", tok, id)
  /\ LET found == FindOne(id, tok.id)
     IN  IF found = {}
         THEN /\ res' = Err(404, "Job not found")
              /\ UNCHANGED jobs
         ELSE /\ jobs' = jobs \ found
              /\ res' = Msg(200, "Job deleted")
  /\ UNCHANGED <<users, nextId>>
  /\ UNCHANGED inflight
  /\ UNCHANGED later

----------------------------------------------------------------------------
(* IEEE-754 binary64 arithmetic of the score expression                    *)
(*   Math.round((matched.length / job.keywords.length) * 100)              *)
(* A positive double is [c, exp]: its 53-bit significand is a leading 1    *)
(* followed by the four 13-bit digits c[1..4], the leading bit weighing    *)
(* 2^exp.  Every intermediate value stays below 2^31.                      *)

DigitBits == 13

RECURSIVE Pow2(_)
Pow2(k) == IF k = 0 THEN 1 ELSE 2 * Pow2(k - 1)

Digit == Pow2(DigitBits)

\* the largest s with d * 2^s <= r (r >= d)
RECURSIVE ShiftDown(_, _, _)
ShiftDown(r, d, s) == IF 2 * d <= r THEN ShiftDown(r, 2 * d, s + 1) ELSE s

\* the smallest s with r * 2^s >= d
RECURSIVE ShiftUp(_, _, _)
ShiftUp(r, d, s) == IF r < d THEN ShiftUp(2 * r, d, s + 1) ELSE s

\* round to nearest, ties to even: guard is the first dropped bit, sticky
\* tells whether a later dropped bit is set
RoundNearestEven(c, exp, guard, sticky) ==
  LET up == guard = 1 /\ (sticky \/ (c[4] % 2) = 1)
      n4 == c[4] + 1
      n3 == c[3] + n4 \div Digit
      n2 == c[2] + n3 \div Digit
      n1 == c[1] + n2 \div Digit
  IN  IF ~up THEN [c |-> c, exp |-> exp]
      ELSE IF n1 \div Digit = 1
           THEN [c |-> <<0, 0, 0, 0>>, exp |-> exp + 1]
           ELSE [c |-> <<n1, n2 % Digit, n3 % Digit, n4 % Digit>>, exp |-> exp]

\* m / n for integers m, n >= 1
FDiv(m, n) ==
  LET down == ShiftDown(m, n, 0)
      up   == ShiftUp(m, n, 0)
      e    == IF m >= n THEN down ELSE 0 - up
      r    == IF m >= n THEN m ELSE m * Pow2(up)
      d    == IF m >= n THEN n * Pow2(down) ELSE n
      r0   == r - d
      t1   == r0 * Digit
      t2   == (t1 % d) * Digit
      t3   == (t2 % d) * Digit
      t4   == (t3 % d) * Digit
      tg   == (t4 % d) * 2
  IN  RoundNearestEven(<<t1 \div d, t2 \div d, t3 \div d, t4 \div d>>, e,
                       tg \div d, (tg % d) # 0)

\* x * 100
FMul100(x) ==
  LET t4  == x.c[4] * 100
      t3  == x.c[3] * 100 + t4 \div Digit
      t2  == x.c[2] * 100 + t3 \div Digit
      t1  == x.c[1] * 100 + t2 \div Digit
      top == 100 + t1 \div Digit
      p1  == t1 % Digit
      p2  == t2 % Digit
      p3  == t3 % Digit
      p4  == t4 % Digit
      \* top has k + 1 bits: the product is shifted right by k
      k   == IF top < 128 THEN 6 ELSE 7
      lo  == Pow2(k)
      hi  == Pow2(DigitBits - k)
      drop == p4 % lo
  IN  RoundNearestEven(<<(top % lo) * hi + p1 \div lo,
                         (p1 % lo) * hi + p2 \div lo,
                         (p2 % lo) * hi + p3 \div lo,
                         (p3 % lo) * hi + p4 \div lo>>,
                       x.exp + k,
                       drop \div Pow2(k - 1), (drop % Pow2(k - 1)) # 0)

\* Math.round: the nearest integer, a tie going up (x below 2^26)
MathRound(x) ==
  IF x.exp < 0 - 1 THEN 0
  ELSE IF x.exp = 0 - 1 THEN 1
  ELSE IF x.exp < DigitBits
       THEN Pow2(x.exp) + x.c[1] \div Pow2(DigitBits - x.exp)
              + ((x.c[1] \div Pow2(DigitBits - x.exp - 1)) % 2)
       ELSE IF x.exp = DigitBits
            THEN Pow2(x.exp) + x.c[1] + x.c[2] \div Pow2(DigitBits - 1)
            ELSE Pow2(x.exp) + x.c[1] * Pow2(x.exp - DigitBits)
                   + x.c[2] \div Pow2(2 * DigitBits - x.exp)
                   + ((x.c[2] \div Pow2(2 * DigitBits - x.exp - 1)) % 2)

ScoreEmptyIsFull(m, n) ==
  IF n = 0 THEN 100
  ELSE IF m = 0 THEN 0
  ELSE MathRound(FMul100(FDiv(m, n)))

\* job.keywords.length ? Math.round((matched.length / job.keywords.length) * 100) : 0
Score(m, n) ==
  IF n = 0 THEN 0
  ELSE IF m = 0 THEN 0
  ELSE MathRound(FMul100(FDiv(m, n)))

----------------------------------------------------------------------------
(* controllers/jobController.js: matchResume *)

\* Array.prototype.includes
includes(arr, kw) == \E i \in 1..Len(arr) : arr[i] = kw

MatchedFromJob(U, J) == SelectSeq(J, LAMBDA kw : includes(U, kw))

\* user.resumeKeywords.filter(Kw => job.keywords.includes(Kw))
Matched(U, J) == SelectSeq(U, LAMBDA kw : includes(J, kw))

MissingNotNegated(J, matched) == SelectSeq(J, LAMBDA kw : includes(matched, kw))

\* job.keywords.filter(kw => !matched.includes(kw))
Missing(J, matched) == SelectSeq(J, LAMBDA kw : ~includes(matched, kw))

matchResumeSaving(tok, id) ==
  /\ auth(tok) = NoRes
  /\ req' = Request("matchResume", tok, id)
  /\ LET user == users[tok.id]
         found == FindById(id)
     IN  IF found = {}
         THEN res' = Err(500, "Matching failed") /\ UNCHANGED users
         ELSE LET job == CHOOSE j \in found : TRUE
                  matched == Matched(user.resumeKeywords, job.keywords)
                  missing == Missing(job.keywords, matched)
                  score == Score(Len(matched), Len(job.keywords))
              IN  /\ res' = MatchReply(matched, missing, score)
                  /\ users' = [users EXCEPT ![tok.id].resumeKeywords = matched]
  /\ UNCHANGED <<jobs, nextId>>
  /\ UNCHANGED inflight
  /\ UNCHANGED later

matchResume(tok, id) ==
  /\ auth(tok) = NoRes
  /\ req' = Request("matchResume", tok, id)
  /\ LET user == users[tok.id]
         found == FindById(id)
     IN  IF found = {}
         THEN \* job is null: reading job.keywords throws, the catch answers
              res' = Err(500, "Matching failed")
         ELSE LET job == CHOOSE j \in found : TRUE
                  matched == Matched(user.resumeKeywords, job.keywords)
                  missing == Missing(job.keywords, matched)
                  score == Score(Len(matched), Len(job.keywords))
              IN  res' = MatchReply(matched, missing, score)
  /\ UNCHANGED <<users, jobs, nextId>>
  /\ UNCHANGED inflight
  /\ UNCHANGED later

----------------------------------------------------------------------------
(* routes/jobRouter.js *)

Routes == {"getJobs", "createJob", "matchResume", "getJobById", "updateJob",
           "deleteJob"}

Unauthorized == \E op \in Routes, tok \in Tokens : Rejected(op, tok)

Next ==
  \/ \E tok \in Tokens : getJobs(tok)
  \/ \E tok \in Tokens, body \in Bodies : createJob(tok, body)
  \/ \E tok \in Tokens, id \in JobIds : matchResume(tok, id)
  \/ \E tok \in Tokens, id \in JobIds : getJobById(tok, id)
  \/ \E tok \in Tokens, id \in JobIds, body \in Bodies : updateJob(tok, id, body)
  \/ \E tok \in Tokens, id \in JobIds : deleteJob(tok, id)
  \/ Unauthorized

Spec == Init /\ [][Next]_vars

----------------------------------------------------------------------------
(* The match on its own: one user with resume keywords U, one job of that  *)
(* user with keywords J, U and J drawn from MatchLists.                    *)

MatchInit ==
  /\ \E U \in MatchLists :
       users = [u \in Users |-> [resumeKeywords |-> IF u = "A" THEN U ELSE <<>>]]
  /\ \E J \in MatchLists :
       jobs = {[_id |-> 1, userId |-> "A", position |-> "dev", company |-> "acme",
                status |-> "applied", keywords |-> J, appliedDate |-> 1]}
  /\ nextId = 2
  /\ req = NoReq
  /\ res = NoRes
  /\ Quiet

MatchNext == \E tok \in Tokens, id \in JobIds : matchResume(tok, id)

MatchSpec == MatchInit /\ [][MatchNext]_vars

----------------------------------------------------------------------------
(* controllers/resumeController.js: tailorResume and enhanceExperience *)

\* a || b on optional strings: a when it is present and not empty
OrElse(a, b) == IF a # {} /\ a # {""} THEN a ELSE b

Undefined == [enhanced_description |-> {}, optimized_title |-> {}, relevant_keywords |-> {}]

enhanceExperiencePaired(originalExp, aiEnhancements) ==
  [index \in 1..(IF Len(aiEnhancements) < Len(originalExp)
                 THEN Len(aiEnhancements) ELSE Len(originalExp)) |->
     [originalExp[index] EXCEPT
        !.description =
           Get(OrElse(aiEnhancements[index].enhanced_description, {@}), ""),
        !.keywords = {Get(aiEnhancements[index].relevant_keywords, <<>>)},
        !.title = Get(OrElse(aiEnhancements[index].optimized_title, {@}), "")]]

\* originalExp.map((exp, index) => ...)
enhanceExperience(originalExp, aiEnhancements) ==
  [index \in 1..Len(originalExp) |->
     LET exp == originalExp[index]
         enhancement == IF index <= Len(aiEnhancements)
                        THEN aiEnhancements[index] ELSE Undefined
     IN  [exp EXCEPT
            !.description =
               Get(OrElse(enhancement.enhanced_description, {exp.description}), ""),
            !.keywords = {Get(enhancement.relevant_keywords, <<>>)},
            !.title = Get(OrElse(enhancement.optimized_title, {exp.title}), "")]]

TailorFailed ==
  [status |-> 500, success |-> {FALSE},
   message |-> "Error tailoring resume. Please try again.", tailored |-> {}]

\* reading resumeData.summary or resumeData.experience.map throws
Throws(body) ==
  \/ body.resumeData = {}
  \/ \E rd \in body.resumeData : rd.experience = {}

\* the tailoredResume object built from the request body and aiResult
TailoredResume(body, ai) ==
  LET resumeData == CHOOSE rd \in body.resumeData : TRUE
  IN  [summary |-> OrElse(ai.tailored_summary, resumeData.summary),
       experience |->
         enhanceExperience(Get(resumeData.experience, <<>>),
                           Get(ai.enhanced_experience, <<>>)),
       matchScore |-> Get(ai.match_score, 0)]

\* the answer once the awaited fetch has settled
TailorAnswer(body, outcome) ==
  IF outcome.kind # "ok" THEN TailorFailed
  ELSE IF Throws(body) THEN TailorFailed
  ELSE [status |-> 200, success |-> {TRUE}, message |-> "",
        tailored |-> {TailoredResume(body, outcome.ai)}]

\* POST /api/resume/tailor up to the awaited fetch
tailorResume(tok, body) ==
  /\ tailor.pc = "idle"
  /\ IF auth(tok) # NoRes
     THEN tailor' = [TailorIdle EXCEPT
                       !.pc = "done", !.token = tok, !.body = body,
                       !.out = [NoOut EXCEPT !.status = auth(tok).status,
                                             !.message = auth(tok).message]]
     ELSE tailor' = [TailorIdle EXCEPT
                       !.pc = "fetch", !.token = tok, !.body = body,
                       !.svc = "pending", !.calls = 1]
  /\ UNCHANGED <<users, jobs, nextId, req, res, extract, uploads, updates,
                 profile, files>>
  /\ UNCHANGED later

tailorSettlesAndRetries(outcome) ==
  /\ tailor.pc = "fetch"
  /\ IF outcome.kind # "ok" /\ tailor.calls < 2
     THEN tailor' = [tailor EXCEPT !.calls = tailor.calls + 1]
     ELSE tailor' = [tailor EXCEPT
                       !.pc = "done", !.svc = outcome.kind, !.ai = outcome.ai,
                       !.out = TailorAnswer(tailor.body, outcome)]
  /\ UNCHANGED <<users, jobs, nextId, req, res, extract, uploads, updates,
                 profile, files>>
  /\ UNCHANGED later

tailorSettlesAndSaves(outcome) ==
  /\ tailor.pc = "fetch"
  /\ tailor' = [tailor EXCEPT
                  !.pc = "done", !.svc = outcome.kind, !.ai = outcome.ai,
                  !.out = TailorAnswer(tailor.body, outcome)]
  /\ users' = [users EXCEPT
                 ![tailor.token.id].resumeKeywords =
                    IF outcome.kind = "ok" THEN <<"tailored">> ELSE @]
  /\ UNCHANGED <<jobs, nextId, req, res, extract, uploads, updates,
                 profile, files>>
  /\ UNCHANGED later

\* the fetch settles and the handler runs to its response
tailorSettles(outcome) ==
  /\ tailor.pc = "fetch"
  /\ tailor' = [tailor EXCEPT
                  !.pc = "done", !.svc = outcome.kind, !.ai = outcome.ai,
                  !.out = TailorAnswer(tailor.body, outcome)]
  /\ UNCHANGED <<users, jobs, nextId, req, res, extract, uploads, updates,
                 profile, files>>
  /\ UNCHANGED later

\* one resume and one job of user A are stored when the request arrives
TailorInit ==
  /\ users = [u \in Users |-> [resumeKeywords |-> <<"python">>]]
  /\ jobs = {[_id |-> 1, userId |-> "A", position |-> "dev", company |-> "acme",
              status |-> "applied", keywords |-> <<"python">>, appliedDate |-> 1]}
  /\ nextId = 2
  /\ req = NoReq
  /\ res = NoRes
  /\ Quiet

TailorNext ==
  \/ tailor.pc = "idle" /\
       \E tok \in Tokens, body \in TailorBodies : tailorResume(tok, body)
  \/ tailor.pc = "fetch" /\
       \E outcome \in Outcomes : tailorSettles(outcome)

TailorSpec == TailorInit /\ [][TailorNext]_vars

----------------------------------------------------------------------------
(* uploadResume of controllers/resumeController.js and of
   controllers/profileController.js, and the /extract route *)

Handlers == {"resumeController", "profileController"}

\* req.file as multer leaves it: absent, or a stored file of some type
Files ==
  Opt([mimetype : {"application/pdf", "text/plain", "image/png"},
       parses : BOOLEAN, originalname : {"new.pdf"}])

\* axios.post(.../extract-keywords) rejects, or resolves with data.keywords
Extractions ==
  [kind : {"failed"}, keywords : {<<>>}] \cup [kind : {"ok"}, keywords : ResumeLists]

UploadFailed == Answer(500, "Failed to upload or parse resume", "", <<>>)

Unsupported == Answer(400, "Only PDF or plain-text resumes are supported", "", <<>>)

\* the handler from its entry to the awaited axios.post: the response it
\* gives before that, or NoAnswer when it reaches the call
BeforeExtract(h, file) ==
  IF file = {} THEN UploadFailed
  ELSE LET f == CHOOSE x \in file : TRUE
       IN  IF h = "profileController" /\ ~f.parses THEN UploadFailed
           ELSE IF f.mimetype = "application/pdf"
                THEN IF f.parses THEN NoAnswer ELSE UploadFailed
           ELSE IF f.mimetype = "text/plain" THEN NoAnswer
           ELSE Unsupported

\* POST upload-resume: auth, multer's upload.single, then the handler up to
\* the awaited axios.post
uploadResume(s, h, tok, file) ==
  /\ uploads[s].pc = "idle"
  /\ IF auth(tok) # NoRes
     THEN /\ uploads' = [uploads EXCEPT ![s] =
                [UploadIdle EXCEPT !.pc = "done", !.handler = h, !.token = tok,
                   !.out = Answer(auth(tok).status, "", auth(tok).message, <<>>)]]
          /\ files' = files
     ELSE LET stored == IF file = {} THEN NoFile
                        ELSE [path |-> files.next,
                              mimetype |-> Get(file, NoFile).mimetype,
                              parses |-> Get(file, NoFile).parses,
                              originalname |-> Get(file, NoFile).originalname]
              early == BeforeExtract(h, file)
          IN  /\ files' = IF file = {} THEN files
                          ELSE [dir |-> files.dir \cup {files.next},
                                next |-> files.next + 1]
              /\ uploads' = [uploads EXCEPT ![s] =
                    [UploadIdle EXCEPT
                       !.pc = IF early = NoAnswer THEN "extract" ELSE "done",
                       !.handler = h, !.token = tok, !.file = stored,
                       !.svc = IF early = NoAnswer THEN "pending" ELSE "none",
                       !.out = early]]
  /\ UNCHANGED <<users, jobs, nextId, req, res, tailor, extract, updates, profile>>
  /\ UNCHANGED later

\* await User.findByIdAndUpdate(userId, {resumeKeywords, resumeFilename, resumePath})
SaveResume(u, keywords, file) ==
  /\ users' = [users EXCEPT ![u].resumeKeywords = keywords]
  /\ profile' = [profile EXCEPT ![u] = [resumeFilename |-> {file.originalname},
                                        resumePath |-> {file.path}]]

uploadSettlesClearing(s, x) ==
  /\ uploads[s].pc = "extract"
  /\ IF x.kind = "failed"
     THEN /\ uploads' = [uploads EXCEPT ![s].pc = "done", ![s].svc = "failed",
                                        ![s].out = UploadFailed]
          /\ users' = [users EXCEPT ![uploads[s].token.id].resumeKeywords = <<>>]
          /\ profile' = profile
     ELSE IF uploads[s].handler = "profileController"
     THEN /\ SaveResume(uploads[s].token.id, x.keywords, uploads[s].file)
          /\ uploads' = [uploads EXCEPT
               ![s].pc = "done", ![s].svc = "ok", ![s].keywords = x.keywords,
               ![s].out = Answer(200, "", "Resume uploaded and keywords updated",
                                 x.keywords)]
     ELSE /\ uploads' = [uploads EXCEPT
               ![s].pc = "find", ![s].svc = "ok", ![s].keywords = x.keywords]
          /\ UNCHANGED <<users, profile>>
  /\ UNCHANGED <<jobs, nextId, req, res, tailor, extract, updates, files>>
  /\ UNCHANGED later

\* the awaited axios.post settles: the catch answers 500, profileController
\* saves and answers, resumeController goes on to look up the old resume
uploadSettles(s, x) ==
  /\ uploads[s].pc = "extract"
  /\ IF x.kind = "failed"
     THEN /\ uploads' = [uploads EXCEPT ![s].pc = "done", ![s].svc = "failed",
                                        ![s].out = UploadFailed]
          /\ UNCHANGED <<users, profile>>
     ELSE IF uploads[s].handler = "profileController"
     THEN /\ SaveResume(uploads[s].token.id, x.keywords, uploads[s].file)
          /\ uploads' = [uploads EXCEPT
               ![s].pc = "done", ![s].svc = "ok", ![s].keywords = x.keywords,
               ![s].out = Answer(200, "", "Resume uploaded and keywords updated",
                                 x.keywords)]
     ELSE /\ uploads' = [uploads EXCEPT
               ![s].pc = "find", ![s].svc = "ok", ![s].keywords = x.keywords]
          /\ UNCHANGED <<users, profile>>
  /\ UNCHANGED <<jobs, nextId, req, res, tailor, extract, updates, files>>
  /\ UNCHANGED later

\* const oldUser = await User.findById(userId)
uploadFindOld(s) ==
  /\ uploads[s].pc = "find"
  /\ uploads' = [uploads EXCEPT
       ![s].pc = IF profile[uploads[s].token.id].resumePath # {}
                 THEN "unlink" ELSE "save",
       ![s].old = profile[uploads[s].token.id].resumePath]
  /\ UNCHANGED <<users, jobs, nextId, req, res, tailor, extract, updates,
                 profile, files>>
  /\ UNCHANGED later

\* await fsPromises.unlink(oldUser.resumePath), ENOENT ignored
uploadUnlinkOld(s) ==
  /\ uploads[s].pc = "unlink"
  /\ files' = [files EXCEPT !.dir = @ \ uploads[s].old]
  /\ uploads' = [uploads EXCEPT ![s].pc = "save"]
  /\ UNCHANGED <<users, jobs, nextId, req, res, tailor, extract, updates, profile>>
  /\ UNCHANGED later

\* await User.findByIdAndUpdate(...) and the 200 response
uploadSave(s) ==
  /\ uploads[s].pc = "save"
  /\ SaveResume(uploads[s].token.id, uploads[s].keywords, uploads[s].file)
  /\ uploads' = [uploads EXCEPT
       ![s].pc = "done",
       ![s].out = Answer(200, "", "Resume uploaded and keywords updated",
                         uploads[s].keywords)]
  /\ UNCHANGED <<jobs, nextId, req, res, tailor, extract, updates, files>>
  /\ UNCHANGED later

\* POST /extract up to the awaited axios.post (the route has no auth)
extractKeywords ==
  /\ extract.pc = "idle"
  /\ extract' = [ExtractIdle EXCEPT !.pc = "extract", !.svc = "pending"]
  /\ UNCHANGED <<users, jobs, nextId, req, res, tailor, uploads, updates,
                 profile, files>>
  /\ UNCHANGED later

\* res.json(data), or the catch: res.status(500).json({error: 'Analysis failed'})
extractSettles(x) ==
  /\ extract.pc = "extract"
  /\ extract' = [extract EXCEPT
       !.pc = "done", !.svc = x.kind,
       !.out = IF x.kind = "failed" THEN Answer(500, "Analysis failed", "", <<>>)
               ELSE Answer(200, "", "", x.keywords)]
  /\ UNCHANGED <<users, jobs, nextId, req, res, tailor, uploads, updates,
                 profile, files>>
  /\ UNCHANGED later

\* user A has uploaded a resume before, user B has not; A has one job
UploadInit ==
  /\ users = [u \in Users |->
                [resumeKeywords |-> IF u = "A" THEN <<"python">> ELSE <<>>]]
  /\ jobs = {[_id |-> 1, userId |-> "A", position |-> "dev", company |-> "acme",
              status |-> "applied", keywords |-> <<"python">>, appliedDate |-> 1]}
  /\ nextId = 2
  /\ req = NoReq
  /\ res = NoRes
  /\ tailor = TailorIdle
  /\ extract = ExtractIdle
  /\ uploads = [s \in UploadSlots |-> UploadIdle]
  /\ updates = [s \in UpdateSlots |-> UpdateIdle]
  /\ profile = [u \in Users |->
                  IF u = "A" THEN [resumeFilename |-> {"old.pdf"}, resumePath |-> {1}]
                  ELSE [resumeFilename |-> {}, resumePath |-> {}]]
  /\ files = [dir |-> {1}, next |-> 2]
  /\ Unused

UploadNext ==
  \/ \E s \in UploadSlots, h \in Handlers, tok \in Tokens, file \in Files :
       uploadResume(s, h, tok, file)
  \/ \E s \in UploadSlots, x \in Extractions : uploadSettles(s, x)
  \/ \E s \in UploadSlots : uploadFindOld(s)
  \/ \E s \in UploadSlots : uploadUnlinkOld(s)
  \/ \E s \in UploadSlots : uploadSave(s)
  \/ extractKeywords
  \/ \E x \in Extractions : extractSettles(x)

UploadSpec == UploadInit /\ [][UploadNext]_vars

----------------------------------------------------------------------------
(* Requests that await the external service, with the handlers' own steps
   scheduled fairly *)

\* one upload at a time next to the tailoring and the /extract request
LiveSlots == {1}

\* tailoring inputs without experience entries
LiveBodies ==
  {b \in TailorBodies :
     \A rd \in b.resumeData : \A e \in rd.experience : e = <<>>}

LiveOutcomes == {o \in Outcomes : o.ai.enhanced_experience = {}}

LiveNext ==
  \/ tailor.pc = "idle" /\
       \E tok \in Tokens, body \in LiveBodies : tailorResume(tok, body)
  \/ \E outcome \in LiveOutcomes : tailorSettles(outcome)
  \/ \E s \in LiveSlots, h \in Handlers, tok \in Tokens, file \in Files :
       uploadResume(s, h, tok, file)
  \/ \E s \in LiveSlots, x \in Extractions : uploadSettles(s, x)
  \/ \E s \in LiveSlots : uploadFindOld(s)
  \/ \E s \in LiveSlots : uploadUnlinkOld(s)
  \/ \E s \in LiveSlots : uploadSave(s)
  \/ extractKeywords
  \/ \E x \in Extractions : extractSettles(x)

\* Node runs every continuation whose awaited database or file call has
\* settled; neither fetch nor axios.post is given a timeout, so nothing
\* obliges the awaited service call to settle.
LiveSpec ==
  /\ UploadInit
  /\ [][LiveNext]_vars
  /\ \A s \in LiveSlots :
       /\ WF_vars(uploadFindOld(s))
       /\ WF_vars(uploadUnlinkOld(s))
       /\ WF_vars(uploadSave(s))

----------------------------------------------------------------------------
(* createJob and updateJob with arbitrary position, company and status *)

\* request bodies whose fields may be absent, empty or outside the schema
FieldBodies ==
  [userId : {{}}, position : Opt({"", "dev"}), company : Opt({"acme"}),
   status : Opt({"offer", "bogus"}), keywords : {{}}]

FieldInit ==
  /\ users = [u \in Users |-> [resumeKeywords |-> <<>>]]
  /\ jobs = {}
  /\ nextId = 1
  /\ req = NoReq
  /\ res = NoRes
  /\ Quiet

FieldNext ==
  \/ \E tok \in Tokens, body \in FieldBodies : createJob(tok, body)
  \/ \E tok \in Tokens, id \in JobIds, body \in FieldBodies : updateJob(tok, id, body)

FieldSpec == FieldInit /\ [][FieldNext]_vars

----------------------------------------------------------------------------
(* Overlapping updateJob requests *)

\* bodies that set the position, the status, both or neither
ConcBodies ==
  [userId : {{}}, position : Opt({"lead"}), company : {{}},
   status : Opt({"offer", "rejected"}), keywords : {{}}]

\* the job of user A both requests are aimed at
TheJob ==
  [_id |-> 1, userId |-> "A", position |-> "dev", company |-> "acme",
   status |-> "applied", keywords |-> <<"python">>, appliedDate |-> 1]

\* PUT /:id arrives: auth, then the handler up to the awaited
\* findOneAndUpdate; overlap records that another update is awaiting its own
updateArrives(s, tok, id, body) ==
  /\ updates[s].pc = "idle"
  /\ updates' = [updates EXCEPT ![s] =
       IF auth(tok) # NoRes
       THEN [UpdateIdle EXCEPT !.pc = "done", !.token = tok, !.id = id,
                               !.body = body, !.out = auth(tok)]
       ELSE [UpdateIdle EXCEPT
               !.pc = "query", !.token = tok, !.id = id, !.body = body,
               !.overlap = \E t \in UpdateSlots \ {s} : updates[t].pc = "query"]]
  /\ UNCHANGED <<users, jobs, nextId, req, res, tailor, extract, uploads,
                 profile, files>>
  /\ UNCHANGED later

updateWritesWholeDocument(s) ==
  /\ updates[s].pc = "query"
  /\ LET found == FindOne(updates[s].id, updates[s].token.id)
     IN  IF found = {}
         THEN /\ updates' = [updates EXCEPT ![s].pc = "done",
                                            ![s].out = Err(404, "Job not found")]
              /\ UNCHANGED jobs
         ELSE LET old == CHOOSE j \in found : TRUE
                  new == ApplyUpdate(TheJob, updates[s].body)
              IN  /\ jobs' = (jobs \ {old}) \cup {new}
                  /\ updates' = [updates EXCEPT ![s].pc = "done",
                                                ![s].out = JobReply(200, new)]
  /\ UNCHANGED <<users, nextId, req, res, tailor, extract, uploads, profile, files>>
  /\ UNCHANGED later

\* the awaited findOneAndUpdate({_id, userId}, req.body, {new: true}) runs in
\* the store as one step, and the handler answers with its result
updateApplies(s) ==
  /\ updates[s].pc = "query"
  /\ LET found == FindOne(updates[s].id, updates[s].token.id)
     IN  IF found = {}
         THEN /\ updates' = [updates EXCEPT ![s].pc = "done",
                                            ![s].out = Err(404, "Job not found")]
              /\ UNCHANGED jobs
         ELSE LET old == CHOOSE j \in found : TRUE
                  new == ApplyUpdate(old, updates[s].body)
              IN  /\ jobs' = (jobs \ {old}) \cup {new}
                  /\ updates' = [updates EXCEPT ![s].pc = "done",
                                                ![s].out = JobReply(200, new)]
  /\ UNCHANGED <<users, nextId, req, res, tailor, extract, uploads, profile, files>>
  /\ UNCHANGED later

ConcInit ==
  /\ users = [u \in Users |-> [resumeKeywords |-> <<>>]]
  /\ jobs = {TheJob}
  /\ nextId = 2
  /\ req = NoReq
  /\ res = NoRes
  /\ Quiet

ConcNext ==
  \/ \E s \in UpdateSlots, tok \in Tokens, id \in JobIds, body \in ConcBodies :
       updateArrives(s, tok, id, body)
  \/ \E s \in UpdateSlots : updateApplies(s)

ConcSpec == ConcInit /\ [][ConcNext]_vars

----------------------------------------------------------------------------
(* getResume, deleteResume and downloadResume of controllers/
   profileController.js and controllers/resumeController.js, and
   getUserResumeData of controllers/resumeController.js *)

\* DELETE resume: auth, then the handler up to its first awaited call
deleteResume(s, h, tok) ==
  /\ deletes[s].pc = "idle"
  /\ deletes' = [deletes EXCEPT ![s] =
       IF auth(tok) # NoRes
       THEN [DeleteIdle EXCEPT
               !.pc = "done", !.handler = h, !.token = tok,
               !.out = Answer(auth(tok).status, "", auth(tok).message, <<>>)]
       ELSE [DeleteIdle EXCEPT
               !.pc = IF h = "profileController" THEN "unset" ELSE "find",
               !.handler = h, !.token = tok]]
  /\ UNCHANGED <<users, jobs, nextId, req, res, tailor, extract, uploads,
                 updates, profile, files, accounts, signups, session, reads,
                 client, form>>

\* const user = await User.findById(userId)
deleteFindsUser(s) ==
  /\ deletes[s].pc = "find"
  /\ deletes' = [deletes EXCEPT
       ![s].pc = IF profile[deletes[s].token.id].resumePath # {}
                 THEN "unlink" ELSE "unset",
       ![s].old = profile[deletes[s].token.id].resumePath]
  /\ UNCHANGED <<users, jobs, nextId, req, res, tailor, extract, uploads,
                 updates, profile, files, accounts, signups, session, reads,
                 client, form>>

\* await fsPromises.unlink(user.resumePath), ENOENT ignored
deleteUnlinks(s) ==
  /\ deletes[s].pc = "unlink"
  /\ files' = [files EXCEPT !.dir = @ \ deletes[s].old]
  /\ deletes' = [deletes EXCEPT ![s].pc = "unset"]
  /\ UNCHANGED <<users, jobs, nextId, req, res, tailor, extract, uploads,
                 updates, profile, accounts, signups, session, reads, client,
                 form>>

\* the fields each version's $unset names
Unset(h, p) ==
  IF h = "profileController"
  THEN [p EXCEPT !.resumeFilename = {}]
  ELSE [p EXCEPT !.resumeFilename = {}, !.resumePath = {}]

\* await User.findByIdAndUpdate(userId, {$unset: ...}) and the response
deleteUnsets(s) ==
  /\ deletes[s].pc = "unset"
  /\ users' = [users EXCEPT ![deletes[s].token.id].resumeKeywords = <<>>]
  /\ profile' = [profile EXCEPT
       ![deletes[s].token.id] = Unset(deletes[s].handler, @)]
  /\ deletes' = [deletes EXCEPT
       ![s].pc = "done",
       ![s].out = Answer(200, "", "Resume deleted successfully", <<>>)]
  /\ UNCHANGED <<jobs, nextId, req, res, tailor, extract, uploads, updates,
                 files, accounts, signups, session, reads, client, form>>

\* the response auth gives to a resume read, in the shape of a read answer
ReadRejected(tok) == ReadAnswer(auth(tok).status, auth(tok).message, "", <<>>, {})

\* GET resume: {resumeFilename: user.resumeFilename || '',
\*              resumeKeywords: user.resumeKeywords || []}
getResume(tok) ==
  /\ reads' = [op |-> "getResume", handler |-> "", token |-> tok,
               out |-> IF auth(tok) # NoRes THEN ReadRejected(tok)
                       ELSE ReadAnswer(200, "",
                                       Get(profile[tok.id].resumeFilename, ""),
                                       users[tok.id].resumeKeywords, {})]
  /\ UNCHANGED <<users, jobs, nextId, req, res, tailor, extract, uploads,
                 updates, profile, files, accounts, signups, session, deletes,
                 client, form>>

\* GET resume/download: 404 without a resumePath, else res.download, which
\* hands a missing file to the default error handler (404)
downloadResume(tok) ==
  /\ reads' = [op |-> "downloadResume", handler |-> "", token |-> tok,
               out |-> IF auth(tok) # NoRes THEN ReadRejected(tok)
                       ELSE IF profile[tok.id].resumePath = {}
                       THEN ReadAnswer(404, "No resume uploaded", "", <<>>, {})
                       ELSE IF profile[tok.id].resumePath \subseteq files.dir
                       THEN ReadAnswer(200, "",
                                       Get(profile[tok.id].resumeFilename, ""),
                                       <<>>, profile[tok.id].resumePath)
                       ELSE ReadAnswer(404, "Not Found", "", <<>>, {})]
  /\ UNCHANGED <<users, jobs, nextId, req, res, tailor, extract, uploads,
                 updates, profile, files, accounts, signups, session, deletes,
                 client, form>>

\* req.user: the payload postLogin signed, {id, email, name}
Decoded(tok) == [id |-> {tok.id}, userId |-> {}]

\* User.findById(id): no document for an undefined id
FindUserById(id) == {u \in Users : {u} = id}

\* GET /api/resume/user-data
getUserResumeData(tok) ==
  /\ reads' = [op |-> "getUserResumeData", handler |-> "", token |-> tok,
               out |-> IF auth(tok) # NoRes THEN ReadRejected(tok)
                       ELSE IF FindUserById(Decoded(tok).userId) = {}
                       THEN ReadAnswer(404, "User not found", "", <<>>, {})
                       ELSE ReadAnswer(200, "", "", <<>>, {})]
  /\ UNCHANGED <<users, jobs, nextId, req, res, tailor, extract, uploads,
                 updates, profile, files, accounts, signups, session, deletes,
                 client, form>>

\* user A has uploaded a resume before, user B has not; A has one job
ProfileInit == UploadInit

\* the tokens jwt.verify accepts
GoodTokens == {tok \in Tokens : jwtVerify(tok)}

ProfileNext ==
  \/ \E s \in LiveSlots, h \in Handlers, tok \in GoodTokens, file \in Files :
       uploadResume(s, h, tok, file)
  \/ \E s \in LiveSlots, x \in Extractions : uploadSettles(s, x)
  \/ \E s \in LiveSlots : uploadFindOld(s)
  \/ \E s \in LiveSlots : uploadUnlinkOld(s)
  \/ \E s \in LiveSlots : uploadSave(s)
  \/ \E s \in DeleteSlots, h \in Handlers, tok \in GoodTokens :
       deleteResume(s, h, tok)
  \/ \E s \in DeleteSlots : deleteFindsUser(s)
  \/ \E s \in DeleteSlots : deleteUnlinks(s)
  \/ \E s \in DeleteSlots : deleteUnsets(s)
  \/ \E tok \in GoodTokens : getResume(tok)
  \/ \E tok \in GoodTokens : downloadResume(tok)
  \/ \E tok \in GoodTokens : getUserResumeData(tok)
  \/ \E tok \in GoodTokens : matchResume(tok, TheJob._id)

ProfileSpec == ProfileInit /\ [][ProfileNext]_vars

----------------------------------------------------------------------------
(* The routes behind auth, with any Authorization header *)

\* an upload declared text/plain that pdf-parse accepts
TextFile ==
  {[mimetype |-> "text/plain", parses |-> TRUE, originalname |-> "new.pdf"]}

GuardNext ==
  \/ \E op \in Routes, tok \in Tokens : Rejected(op, tok)
  \/ \E tok \in Tokens : getJobs(tok)
  \/ \E s \in LiveSlots, tok \in Tokens :
       uploadResume(s, "profileController", tok, TextFile)
  \/ \E s \in LiveSlots, x \in Extractions : uploadSettles(s, x)
  \/ \E s \in DeleteSlots, tok \in Tokens :
       deleteResume(s, "profileController", tok)
  \/ \E s \in DeleteSlots : deleteUnsets(s)
  \/ \E tok \in Tokens : getResume(tok)
  \/ \E tok \in Tokens : downloadResume(tok)
  \/ \E tok \in Tokens : getUserResumeData(tok)

GuardSpec == ProfileInit /\ [][GuardNext]_vars

----------------------------------------------------------------------------
(* controllers/authController.js: postSignup and postLogin *)

\* every name drawn passes notEmpty()
Names == {"ann", "bob"}

Emails == {"a@x.io", "b@x.io", "not-an-email"}

\* every password drawn passes the signup validators
Passwords == {"Passw0rd!", "Passw0rd! ", "Other0rd!"}

\* the .trim() sanitizer that ends the signup password chain
trim(password) == IF password = "Passw0rd! " THEN "Passw0rd!" ELSE password

\* body('email').isEmail()
isEmail(email) == email \in {"a@x.io", "b@x.io"}

\* bcrypt.hash(password, salt), and bcrypt.compare(password, hash)
Hash(password) == <<"bcrypt", password>>

compare(password, hash) == hash = Hash(password)

\* the {id, email, name} a response and a token payload carry
Public(a) == [id |-> a.id, name |-> a.name, email |-> a.email]

\* POST /signup: the validators and the handler up to the awaited findOne
postSignup(s, name, email, password) ==
  /\ signups[s].pc = "idle"
  /\ signups' = [signups EXCEPT ![s] =
       IF ~isEmail(email)
       THEN [pc |-> "done", name |-> name, email |-> email, password |-> password,
             out |-> AuthAnswer(400, "Invalid email", {}, {})]
       ELSE [pc |-> "findOne", name |-> name, email |-> email,
             password |-> trim(password), out |-> NoAuthAnswer]]
  /\ UNCHANGED <<users, jobs, nextId, req, res, tailor, extract, uploads,
                 updates, profile, files, accounts, session, deletes, reads,
                 client, form>>

\* const exists = await User.findOne({ name })
signupFindsName(s) ==
  /\ signups[s].pc = "findOne"
  /\ signups' = [signups EXCEPT ![s] =
       IF \E a \in accounts : a.name = signups[s].name
       THEN [@ EXCEPT !.pc = "done",
                      !.out = AuthAnswer(400, "User already exists", {}, {})]
       ELSE [@ EXCEPT !.pc = "create"]]
  /\ UNCHANGED <<users, jobs, nextId, req, res, tailor, extract, uploads,
                 updates, profile, files, accounts, session, deletes, reads,
                 client, form>>

\* bcrypt.genSalt, bcrypt.hash and User.create: the unique index on email
\* rejects a second document with the same email, and the catch answers 500
signupCreates(s) ==
  /\ signups[s].pc = "create"
  /\ LET user == [id |-> Cardinality(accounts) + 1, name |-> signups[s].name,
                  email |-> signups[s].email,
                  password_hash |-> Hash(signups[s].password)]
     IN  IF \E a \in accounts : a.email = user.email
         THEN /\ signups' = [signups EXCEPT
                   ![s].pc = "done",
                   ![s].out = AuthAnswer(500, "Signup failed", {}, {})]
              /\ UNCHANGED accounts
         ELSE /\ accounts' = accounts \cup {user}
              /\ signups' = [signups EXCEPT
                   ![s].pc = "done",
                   ![s].out = AuthAnswer(201, "", {Public(user)}, {})]
  /\ UNCHANGED <<users, jobs, nextId, req, res, tailor, extract, uploads,
                 updates, profile, files, session, deletes, reads, client, form>>

postLoginTellsUnknown(email, password) ==
  /\ session' =
       [email |-> email, password |-> password,
        out |->
          IF ~isEmail(email) THEN AuthAnswer(400, "Invalid email", {}, {})
          ELSE LET found == {a \in accounts : a.email = email}
               IN  IF found = {}
                   THEN AuthAnswer(404, "User not found", {}, {})
                   ELSE LET user == CHOOSE a \in found : TRUE
                        IN  IF ~compare(password, user.password_hash)
                            THEN AuthAnswer(401, "Invalid credentials", {}, {})
                            ELSE AuthAnswer(200, "", {Public(user)},
                                            {[id |-> user.id, sig |-> "good"]})]
  /\ UNCHANGED <<users, jobs, nextId, req, res, tailor, extract, uploads,
                 updates, profile, files, accounts, signups, deletes, reads,
                 client, form>>

\* POST /login: the validators, findOne({email}), bcrypt.compare, jwt.sign
postLogin(email, password) ==
  /\ session' =
       [email |-> email, password |-> password,
        out |->
          IF ~isEmail(email) THEN AuthAnswer(400, "Invalid email", {}, {})
          ELSE LET found == {a \in accounts : a.email = email}
               IN  IF found = {}
                   THEN AuthAnswer(401, "Invalid credentials", {}, {})
                   ELSE LET user == CHOOSE a \in found : TRUE
                        IN  IF ~compare(password, user.password_hash)
                            THEN AuthAnswer(401, "Invalid credentials", {}, {})
                            ELSE AuthAnswer(200, "", {Public(user)},
                                            {[id |-> user.id, sig |-> "good"]})]
  /\ UNCHANGED <<users, jobs, nextId, req, res, tailor, extract, uploads,
                 updates, profile, files, accounts, signups, deletes, reads,
                 client, form>>

AuthInit ==
  /\ users = [u \in Users |-> [resumeKeywords |-> <<>>]]
  /\ jobs = {}
  /\ nextId = 1
  /\ req = NoReq
  /\ res = NoRes
  /\ Quiet

AuthNext ==
  \/ \E s \in SignupSlots, name \in Names, email \in Emails, password \in Passwords :
       postSignup(s, name, email, password)
  \/ \E s \in SignupSlots : signupFindsName(s)
  \/ \E s \in SignupSlots : signupCreates(s)
  \/ \E email \in Emails, password \in Passwords : postLogin(email, password)

AuthSpec == AuthInit /\ [][AuthNext]_vars

----------------------------------------------------------------------------
(* HuntPilot_frontend: AuthContext.jsx and the route guards of App.jsx.
   The context token is {} for "" and the context user {} for null; a
   localStorage item is {} when absent. *)

Protected ==
  {"/dashboard", "/jobs", "/jobs/:id", "/resume-editor/:id", "/add-job", "/profile"}

Paths == {"/", "/login", "/signup"} \cup Protected

\* JSON.stringify and JSON.parse of the {id, name, email} the server sends
stringify(user) == <<"{", user.id, user.name, user.email, "}">>

parse(text) == [id |-> text[2], name |-> text[3], email |-> text[4]]

\* context?.token || localStorage.getItem("token")
useAuthToken(c) == IF c.token # {} THEN c.token ELSE c.storage.token

\* RootRedirect, AuthRedirect and ProtectedRoute: where one render of the
\* route at path sends the browser
Route(path, token) ==
  IF path = "/" THEN (IF token # {} THEN "/dashboard" ELSE "/login")
  ELSE IF path \in {"/login", "/signup"}
       THEN (IF token # {} THEN "/dashboard" ELSE path)
       ELSE (IF token # {} THEN path ELSE "/login")

\* the re-render every state change causes, followed through <Navigate>
Render(c) ==
  LET token == useAuthToken(c)
      target == Route(Route(c.path, token), token)
  IN  [c EXCEPT !.path = target, !.shown = target]

\* the page is loaded or reloaded at a URL: useState("") and useState(null)
clientLoads(path) ==
  /\ client' = Render([client EXCEPT !.mounted = FALSE, !.token = {},
                                     !.user = {}, !.path = path])
  /\ UNCHANGED <<users, jobs, nextId, req, res, tailor, extract, uploads,
                 updates, profile, files, accounts, signups, session, deletes,
                 reads, form>>

\* the mount effect of AuthProvider
useEffect ==
  /\ ~client.mounted
  /\ client' = Render([client EXCEPT
       !.mounted = TRUE,
       !.token = IF client.storage.token # {} THEN client.storage.token ELSE @,
       !.user = IF client.storage.user # {}
                THEN {parse(text) : text \in client.storage.user} ELSE @])
  /\ UNCHANGED <<users, jobs, nextId, req, res, tailor, extract, uploads,
                 updates, profile, files, accounts, signups, session, deletes,
                 reads, form>>

\* a link or an address inside the application
navigate(path) ==
  /\ client.mounted
  /\ client' = Render([client EXCEPT !.path = path])
  /\ UNCHANGED <<users, jobs, nextId, req, res, tailor, extract, uploads,
                 updates, profile, files, accounts, signups, session, deletes,
                 reads, form>>

\* Login.handleSubmit on a 2xx answer: login(res.data); navigate("/")
login ==
  /\ client.mounted
  /\ client.shown = "/login"
  /\ session.out.status = 200
  /\ client' = Render([client EXCEPT
       !.user = session.out.user,
       !.token = session.out.token,
       !.storage = [token |-> session.out.token,
                    user |-> {stringify(user) : user \in session.out.user}],
       !.path = "/"])
  /\ UNCHANGED <<users, jobs, nextId, req, res, tailor, extract, uploads,
                 updates, profile, files, accounts, signups, session, deletes,
                 reads, form>>

logoutContextOnly ==
  /\ client.mounted
  /\ client.shown \in Protected
  /\ client' = Render([client EXCEPT !.user = {}, !.token = {},
                                     !.path = "/login"])
  /\ UNCHANGED <<users, jobs, nextId, req, res, tailor, extract, uploads,
                 updates, profile, files, accounts, signups, session, deletes,
                 reads, form>>

\* Navbar.handleLogout: logout(); navigate("/login")
logout ==
  /\ client.mounted
  /\ client.shown \in Protected
  /\ client' = Render([client EXCEPT
       !.user = {}, !.token = {},
       !.storage = [token |-> {}, user |-> {}],
       !.path = "/login"])
  /\ UNCHANGED <<users, jobs, nextId, req, res, tailor, extract, uploads,
                 updates, profile, files, accounts, signups, session, deletes,
                 reads, form>>

\* two registered accounts and a browser that has never logged in
ClientInit ==
  /\ users = [u \in Users |-> [resumeKeywords |-> <<>>]]
  /\ jobs = {}
  /\ nextId = 1
  /\ req = NoReq
  /\ res = NoRes
  /\ tailor = TailorIdle
  /\ extract = ExtractIdle
  /\ uploads = [s \in UploadSlots |-> UploadIdle]
  /\ updates = [s \in UpdateSlots |-> UpdateIdle]
  /\ profile = [u \in Users |-> [resumePath |-> {}, resumeFilename |-> {}]]
  /\ files = [dir |-> {}, next |-> 1]
  /\ accounts = {[id |-> 1, name |-> "ann", email |-> "a@x.io",
                  password_hash |-> Hash("Passw0rd!")],
                 [id |-> 2, name |-> "bob", email |-> "b@x.io",
                  password_hash |-> Hash("Other0rd!")]}
  /\ signups = [s \in SignupSlots |-> SignupIdle]
  /\ session = SessionIdle
  /\ deletes = [s \in DeleteSlots |-> DeleteIdle]
  /\ reads = NoRead
  /\ client = ClientIdle
  /\ form = FormIdle

ClientNext ==
  \/ \E email \in Emails, password \in Passwords : postLogin(email, password)
  \/ \E path \in Paths : clientLoads(path)
  \/ useEffect
  \/ \E path \in Paths : navigate(path)
  \/ login
  \/ logout

ClientSpec == ClientInit /\ [][ClientNext]_vars

----------------------------------------------------------------------------
(* AddJob: the keyword-extraction effect on [description, token].
   form.timer holds the pending setTimeout callback and form.fetches the
   extraction requests in flight, each with the description and the
   selectedKeywords its closure captured. *)

Descriptions == {"", "python developer", "react developer"}

\* the keywords the analysis service extracts from a description
Extracted(description) ==
  IF description = "python developer" THEN <<"python">> ELSE <<"react">>

\* the description changes: the cleanup of the previous effect run clears
\* its timer, and the effect runs again
setDescription(description) ==
  /\ form.edits < MaxEdits
  /\ description # form.description
  /\ form' = [form EXCEPT
       !.description = description,
       !.edits = @ + 1,
       !.suggestedKeywords = IF description = "" THEN <<>> ELSE @,
       !.timer = IF description = "" THEN {}
                 ELSE {[description |-> description,
                        selectedKeywords |-> form.selectedKeywords]}]
  /\ UNCHANGED <<users, jobs, nextId, req, res, tailor, extract, uploads,
                 updates, profile, files, accounts, signups, session, deletes,
                 reads, client>>

\* 500 ms pass: the callback starts its fetch
timerFires ==
  /\ form.timer # {}
  /\ form' = [form EXCEPT !.timer = {}, !.keywordError = FALSE,
                          !.fetches = @ \cup form.timer]
  /\ UNCHANGED <<users, jobs, nextId, req, res, tailor, extract, uploads,
                 updates, profile, files, accounts, signups, session, deletes,
                 reads, client>>

\* the answer to one fetch arrives: setSuggestedKeywords, and
\* setSelectedKeywords if the captured selection was empty; a failure sets
\* keywordError
fetchSettles(f, ok) ==
  /\ f \in form.fetches
  /\ form' =
       IF ok
       THEN [form EXCEPT
               !.fetches = @ \ {f},
               !.suggestedKeywords = Extracted(f.description),
               !.selectedKeywords =
                  IF f.selectedKeywords = <<>> THEN Extracted(f.description) ELSE @]
       ELSE [form EXCEPT !.fetches = @ \ {f}, !.keywordError = TRUE]
  /\ UNCHANGED <<users, jobs, nextId, req, res, tailor, extract, uploads,
                 updates, profile, files, accounts, signups, session, deletes,
                 reads, client>>

FormNext ==
  \/ \E description \in Descriptions : setDescription(description)
  \/ timerFires
  \/ \E f \in form.fetches, ok \in BOOLEAN : fetchSettles(f, ok)

FormSpec == AuthInit /\ [][FormNext]_vars

----------------------------------------------------------------------------
(* Claims *)

C2_MatchOnlyOwner ==
  (/\ req.op = "matchResume"
   /\ jwtVerify(req.token)
   /\ \E j \in jobs : j._id = req.id /\ j.userId # req.token.id)
  => (res.kind # "match" /\ res.matched = <<>> /\ res.missing = <<>>)

\* C3: the job createJob stores is owned by the requester of the verified
\* token, whatever the body carries.
C3_CreatedJobOwnedByRequester ==
  (req.op = "createJob" /\ res.status = 201) =>
    /\ res.jobs[1].userId = req.token.id
    /\ \A j \in jobs : j._id = req.id => j.userId = req.token.id

\* C4: the score matchResume returns is an integer in 0..100, duplicates in
\* the keyword lists included.
C4_ScoreInRange ==
  res.kind = "match" => res.score \in 0..100

\* C5: for a job with no keywords matchResume answers matched = [],
\* missing = [] and score = 0, whatever the resume keywords are.
C5_EmptyJobKeywords ==
  (/\ req.op = "matchResume"
   /\ jwtVerify(req.token)
   /\ \E j \in jobs : j._id = req.id /\ j.keywords = <<>>)
  => res = MatchReply(<<>>, <<>>, 0)

\* C5 witness: a user with resume keywords matched a job that has none
C5_Witness ==
  /\ req.op = "matchResume"
  /\ res.kind = "match"
  /\ users[req.token.id].resumeKeywords # <<>>
  /\ \E j \in jobs : j._id = req.id /\ j.keywords = <<>>

\* C6: for a job with keywords, the score is the integer nearest to
\* 100 * |matched| / |J|, a half rounding up.
C6_ScoreIsNearestPercent ==
  (res.kind = "match") =>
    \A j \in jobs :
      (j._id = req.id /\ Len(j.keywords) > 0) =>
        res.score = (200 * Len(res.matched) + Len(j.keywords))
                      \div (2 * Len(j.keywords))

\* C7: matched holds exactly the elements of U that occur in J, in U's
\* order: every matched keyword is in both lists, and the k-th element of U
\* that occurs in J is the k-th element of matched.
C7_MatchedIsResumeInJob ==
  (res.kind = "match") =>
    \A j \in jobs :
      j._id = req.id =>
        LET U == users[req.token.id].resumeKeywords
            hit == {i \in 1..Len(U) : U[i] \in Range(j.keywords)}
        IN  /\ Range(res.matched) \subseteq Range(U) \cap Range(j.keywords)
            /\ Len(res.matched) = Cardinality(hit)
            /\ \A i \in hit :
                 res.matched[Cardinality({h \in hit : h <= i})] = U[i]

\* C7 witness: a match where some resume keyword is in the job and another
\* is not
C7_Witness ==
  /\ res.kind = "match"
  /\ res.matched # <<>>
  /\ Len(res.matched) < Len(users[req.token.id].resumeKeywords)

\* C8: missing holds exactly the job keywords that are not in matched, in the
\* job's order: missing and matched share no keyword and every job keyword
\* is in exactly one of them.
C8_MissingIsJobMinusMatched ==
  (res.kind = "match") =>
    \A j \in jobs :
      j._id = req.id =>
        LET J == j.keywords
            gap == {i \in 1..Len(J) : J[i] \notin Range(res.matched)}
        IN  /\ Range(res.missing) \cap Range(res.matched) = {}
            /\ \A kw \in Range(J) :
                 (kw \in Range(res.matched)) # (kw \in Range(res.missing))
            /\ Len(res.missing) = Cardinality(gap)
            /\ \A i \in gap :
                 res.missing[Cardinality({g \in gap : g <= i})] = J[i]

\* C8 witness: a match with both a matched and a missing job keyword
C8_Witness ==
  /\ res.kind = "match"
  /\ res.matched # <<>>
  /\ res.missing # <<>>

\* C9: matchResume is a pure read: it changes no user and no job, and
\* repeating the request with no write in between gives the identical answer.
C9_MatchIsPureRead ==
  [][ req'.op = "matchResume" =>
        /\ users' = users
        /\ jobs' = jobs
        /\ (req = req' => res' = res)
    ]_vars

\* C9 witness: a match was answered against a job with keywords
C9_Witness ==
  /\ req.op = "matchResume"
  /\ res.kind = "match"
  /\ res.missing # <<>>

\* C10: matchResume naming a job that does not exist answers 404, as the
\* other job routes do.
C10_MatchMissingJobIs404 ==
  (/\ req.op = "matchResume"
   /\ jwtVerify(req.token)
   /\ ~\E j \in jobs : j._id = req.id)
  => res.status = 404

\* C11 as stated: in a successful tailoring the returned experience list has
\* the length and order of the submitted one, entry i carries the description
\* and the title that enhancement i gives, every entry beyond the end of the
\* enhancement list is the submitted entry unchanged, and a shorter list does
\* not make the request fail.
C11_BeyondListUnchanged ==
  (tailor.pc = "done" /\ tailor.svc = "ok" /\ ~Throws(tailor.body)) =>
    LET original == Get(Get(tailor.body.resumeData, [experience |-> {}]).experience, <<>>)
        enh == Get(tailor.ai.enhanced_experience, <<>>)
        returned == Get(tailor.out.tailored, [experience |-> <<>>]).experience
    IN  /\ tailor.out.success = {TRUE}
        /\ Len(returned) = Len(original)
        /\ \A i \in 1..Len(original) :
             /\ returned[i].company = original[i].company
             /\ returned[i].duration = original[i].duration
             /\ i <= Len(enh) =>
                  /\ enh[i].enhanced_description # {} =>
                       {returned[i].description} = enh[i].enhanced_description
                  /\ enh[i].optimized_title # {} =>
                       {returned[i].title} = enh[i].optimized_title
             /\ i > Len(enh) => returned[i] = original[i]

\* C11 amended: in a successful tailoring the returned experience list has
\* the length and order of the submitted one; entry i carries the description
\* (the title) of enhancement i when that enhancement exists and gives a
\* non-empty one, and the submitted description (title) otherwise; its
\* keywords are the enhancement's relevant keywords, or the empty list when
\* there is no enhancement or it names none, whatever keywords were submitted;
\* company and duration are as submitted; surplus enhancements are ignored
\* and a shorter enhancement list does not make the request fail.
C11_EnhancedInPlace ==
  (tailor.pc = "done" /\ tailor.svc = "ok" /\ ~Throws(tailor.body)) =>
    LET original == Get(Get(tailor.body.resumeData, [experience |-> {}]).experience, <<>>)
        enh == Get(tailor.ai.enhanced_experience, <<>>)
        returned == Get(tailor.out.tailored, [experience |-> <<>>]).experience
        given(opt) == opt # {} /\ opt # {""}
    IN  /\ tailor.out.success = {TRUE}
        /\ Len(returned) = Len(original)
        /\ \A i \in 1..Len(original) :
             /\ returned[i].company = original[i].company
             /\ returned[i].duration = original[i].duration
             /\ IF i <= Len(enh) /\ given(enh[i].enhanced_description)
                THEN {returned[i].description} = enh[i].enhanced_description
                ELSE returned[i].description = original[i].description
             /\ IF i <= Len(enh) /\ given(enh[i].optimized_title)
                THEN {returned[i].title} = enh[i].optimized_title
                ELSE returned[i].title = original[i].title
             /\ IF i <= Len(enh) /\ enh[i].relevant_keywords # {}
                THEN returned[i].keywords = enh[i].relevant_keywords
                ELSE returned[i].keywords = {<<>>}

\* C11 witness: two entries were submitted, the service enhanced only the
\* first, and the tailoring succeeded
C11_Witness ==
  /\ tailor.pc = "done"
  /\ tailor.out.success = {TRUE}
  /\ \E rd \in tailor.body.resumeData : \E e \in rd.experience : Len(e) = 2
  /\ \E l \in tailor.ai.enhanced_experience :
       Len(l) = 1 /\ l[1].enhanced_description = {"better"}

\* C12: the tailoring service is called at most once per request, and when
\* that call is unreachable or answers a non-success status the caller gets
\* the generic tailoring-failed response with success = false.
C12_SingleAttempt ==
  /\ tailor.calls <= 1
  /\ (tailor.pc = "done" /\ tailor.svc \in {"unreachable", "badstatus"}) =>
       /\ tailor.calls = 1
       /\ tailor.out = TailorFailed
       /\ tailor.out.success = {FALSE}

\* C12 witness: the one call failed and the request was answered
C12_Witness ==
  /\ tailor.pc = "done"
  /\ tailor.svc \in {"unreachable", "badstatus"}
  /\ tailor.calls = 1
  /\ tailor.out.status = 500

\* C13: a tailoring request, whether it is refused, fails or succeeds,
\* leaves every user record, every stored resume file reference and every
\* job record unchanged.
C13_TailorPersistsNothing ==
  [][ tailor' # tailor =>
        /\ users' = users
        /\ profile' = profile
        /\ files' = files
        /\ jobs' = jobs
    ]_vars

\* C13 witness: a tailored resume was returned while a user record and a job
\* record were in the store
C13_Witness ==
  /\ tailor.pc = "done"
  /\ tailor.out.status = 200
  /\ tailor.out.tailored # {}
  /\ jobs # {}
  /\ users[tailor.token.id].resumeKeywords # <<>>

\* C20: a tailoring request without resumeData, or whose resumeData has no
\* experience list, is answered with a failure that differs from the one
\* given when the service is down, and an outcome the service delivered
\* well-formed is never answered as a tailoring failure.
C20_InvalidInputDistinct ==
  (tailor.pc = "done" /\ tailor.calls = 1) =>
    /\ Throws(tailor.body) =>
         /\ tailor.out.success = {FALSE}
         /\ tailor.out # TailorAnswer(tailor.body, [kind |-> "unreachable", ai |-> NoAi])
         /\ tailor.out # TailorFailed
    /\ tailor.svc = "ok" => tailor.out # TailorFailed

\* C14: when the keyword-extraction call fails during a resume upload or a
\* /extract request, the request is answered with an error, and over the whole
\* request (the file upload and the failed call) no user's resumeKeywords,
\* resumeFilename or resumePath changes, no stored resume file is removed and
\* no job changes.
C14_ExtractionFailureChangesNothing ==
  [][ /\ \A s \in UploadSlots :
           /\ (uploads[s].pc = "idle" /\ uploads'[s].pc # "idle") =>
                /\ users' = users
                /\ profile' = profile
                /\ jobs' = jobs
                /\ files.dir \subseteq files'.dir
           /\ (uploads[s].pc = "extract" /\ uploads'[s].svc = "failed") =>
                /\ uploads'[s].pc = "done"
                /\ uploads'[s].out.status >= 400
                /\ uploads'[s].out.error # ""
                /\ users' = users
                /\ profile' = profile
                /\ jobs' = jobs
                /\ files' = files
      /\ (extract.pc = "extract" /\ extract'.svc = "failed") =>
           /\ extract'.pc = "done"
           /\ extract'.out.status >= 400
           /\ extract'.out.error # ""
           /\ users' = users
           /\ profile' = profile
           /\ jobs' = jobs
           /\ files' = files
    ]_vars

\* C14 witness: an upload by a user who already has a stored resume was
\* answered 500 after the extraction call failed
C14_Witness ==
  \E s \in UploadSlots :
    /\ uploads[s].pc = "done"
    /\ uploads[s].svc = "failed"
    /\ uploads[s].out.status = 500
    /\ jwtVerify(uploads[s].token)
    /\ profile[uploads[s].token.id].resumePath # {}
    /\ profile[uploads[s].token.id].resumePath \subseteq files.dir

\* C15: a request waiting for the external service (tailorResume,
\* uploadResume, /extract) is eventually answered, whether or not the
\* service ever replies.
C15_ServiceRequestsAnswer ==
  /\ (tailor.pc = "fetch") ~> (tailor.pc = "done")
  /\ \A s \in LiveSlots : (uploads[s].pc = "extract") ~> (uploads[s].pc = "done")
  /\ (extract.pc = "extract") ~> (extract.pc = "done")

\* C19: every request a handler has accepted is eventually answered, with
\* a status, and once answered its response does not change.
C19_EveryRequestAnswered ==
  /\ (tailor.pc # "idle") ~> (tailor.pc = "done" /\ tailor.out.status # 0)
  /\ \A s \in LiveSlots :
       (uploads[s].pc # "idle") ~> (uploads[s].pc = "done" /\ uploads[s].out.status # 0)
  /\ (extract.pc # "idle") ~> (extract.pc = "done" /\ extract.out.status # 0)
  /\ [][ /\ tailor.pc = "done" => tailor' = tailor
         /\ extract.pc = "done" => extract' = extract
         /\ \A s \in LiveSlots : uploads[s].pc = "done" => uploads'[s] = uploads[s]
       ]_vars

\* C16: after any sequence of createJob and updateJob requests every stored
\* job's status is one of applied, interviewing, offer, rejected, and a job
\* created without a status has status applied.
C16_StatusInEnum ==
  /\ [](\A j \in jobs : j.status \in StatusEnum)
  /\ [][ \A tok \in Tokens, body \in FieldBodies :
           (createJob(tok, body) /\ body.status = {} /\ jobs' # jobs) =>
             \A j \in jobs' \ jobs : j.status = "applied"
       ]_vars

\* C17: after any sequence of createJob and updateJob requests every stored
\* job has a non-empty position and company, and a create or update that
\* would leave one of them missing is answered with an error and changes no
\* job.
C17_PositionAndCompanyPresent ==
  /\ [](\A j \in jobs : j.position # "" /\ j.company # "")
  /\ [][ \A tok \in Tokens, id \in JobIds, body \in FieldBodies :
           /\ (createJob(tok, body) /\
                 (~Required(body.position) \/ ~Required(body.company))) =>
                (jobs' = jobs /\ res'.status >= 400)
           /\ (updateJob(tok, id, body) /\ FindOne(id, tok.id) # {} /\
                 (body.position = {""} \/ body.company = {""})) =>
                (jobs' = jobs /\ res'.status >= 400)
       ]_vars

\* C18: when two updateJob requests by the owner for the same job have both
\* been answered, the stored job is what applying the two bodies one after
\* the other gives, in one of the two orders: every field is the later
\* body's value when the later body sets it, else the earlier body's value
\* when that sets it, else the value the job had before; and every step
\* that changes the job completes one request's whole update.
C18_SomeSerialOrder ==
  /\ [](( \A s \in UpdateSlots :
            /\ updates[s].pc = "done"
            /\ updates[s].token = [id |-> "A", sig |-> "good"]
            /\ updates[s].id = TheJob._id ) =>
        \E first \in UpdateSlots : \E second \in UpdateSlots \ {first} :
          LET a == updates[first].body
              b == updates[second].body
          IN  jobs =
                {[TheJob EXCEPT
                    !.position = Get(b.position, Get(a.position, @)),
                    !.status = Get(b.status, Get(a.status, @))]})
  /\ [][ jobs' # jobs =>
           \E s \in UpdateSlots :
             /\ updates[s].pc = "query"
             /\ updates'[s].pc = "done"
             /\ updates'[s].out.status = 200
             /\ \A t \in UpdateSlots \ {s} : updates'[t] = updates[t]
       ]_vars

\* C18 witness: two updates by the owner of the same job overlapped, one set
\* the position and the other the status, and both were answered 200
C18_Witness ==
  /\ \A s \in UpdateSlots :
       /\ updates[s].pc = "done"
       /\ updates[s].token = [id |-> "A", sig |-> "good"]
       /\ updates[s].id = TheJob._id
       /\ updates[s].out.status = 200
  /\ \E s \in UpdateSlots : updates[s].overlap
  /\ \E s \in UpdateSlots : \E t \in UpdateSlots \ {s} :
       /\ updates[s].body.position # {} /\ updates[s].body.status = {}
       /\ updates[t].body.position = {} /\ updates[t].body.status # {}

\* C21: a request to a job, profile or resume route without an Authorization
\* header is answered 401 'No token provided', one whose token fails
\* verification is answered 401 'Invalid token', and in both cases no
\* handler runs: no user, job, resume field or file changes, and nothing
\* but the 401 is answered.
C21_AuthBeforeHandler ==
  [][ LET denied(tok) == tok = NoToken \/ tok.sig # "good"
          message(tok) == IF tok = NoToken THEN "No token provided"
                          ELSE "Invalid token"
          untouched == /\ users' = users
                       /\ jobs' = jobs
                       /\ profile' = profile
                       /\ files' = files
      IN  /\ (req' # req /\ denied(req'.token)) =>
                (res' = Err(401, message(req'.token)) /\ untouched)
          /\ (reads' # reads /\ denied(reads'.token)) =>
                /\ reads'.out = ReadAnswer(401, message(reads'.token), "", <<>>, {})
                /\ untouched
          /\ \A s \in LiveSlots :
               (uploads[s].pc = "idle" /\ uploads'[s].pc # "idle"
                  /\ denied(uploads'[s].token)) =>
                 /\ uploads'[s].pc = "done"
                 /\ uploads'[s].out = Answer(401, "", message(uploads'[s].token), <<>>)
                 /\ untouched
          /\ \A s \in DeleteSlots :
               (deletes[s].pc = "idle" /\ deletes'[s].pc # "idle"
                  /\ denied(deletes'[s].token)) =>
                 /\ deletes'[s].pc = "done"
                 /\ deletes'[s].out = Answer(401, "", message(deletes'[s].token), <<>>)
                 /\ untouched
    ]_vars

\* C21 witness: a resume deletion with a forged token was answered 401
\* while the user it names still has the resume
C21_Witness ==
  \E s \in DeleteSlots :
    /\ deletes[s].pc = "done"
    /\ deletes[s].token = [id |-> "A", sig |-> "forged"]
    /\ deletes[s].out.status = 401
    /\ users["A"].resumeKeywords # <<>>
    /\ profile["A"].resumeFilename # {}

\* C22: for a logged-in user whose account exists, GET /api/resume/user-data
\* answers 200 with the user's resume sections, never 404 'User not found'.
C22_UserDataFound ==
  (/\ reads.op = "getUserResumeData"
   /\ reads.token.sig = "good"
   /\ reads.token.id \in Users)
  => reads.out.status = 200

\* C24: after a successful deleteResume by a user, and while no upload by
\* that user has succeeded, getResume answers an empty filename and no
\* keywords, downloadResume answers 404 'No resume uploaded', and
\* matchResume answers matched = [].
C24_NoResumeAfterDelete ==
  [][ \A u \in Users :
        LET deleted == \E s \in DeleteSlots :
                         /\ deletes[s].pc = "done"
                         /\ deletes[s].token = [id |-> u, sig |-> "good"]
                         /\ deletes[s].out.status = 200
            uploaded == \E s \in LiveSlots :
                          /\ uploads[s].pc = "done"
                          /\ uploads[s].token.id = u
                          /\ uploads[s].out.status = 200
            mine == [id |-> u, sig |-> "good"]
        IN  (deleted /\ ~uploaded) =>
              /\ (reads' # reads /\ reads'.token = mine /\ reads'.op = "getResume") =>
                   /\ reads'.out.status = 200
                   /\ reads'.out.filename = ""
                   /\ reads'.out.keywords = <<>>
              /\ (reads' # reads /\ reads'.token = mine
                    /\ reads'.op = "downloadResume") =>
                   /\ reads'.out.status = 404
                   /\ reads'.out.error = "No resume uploaded"
              /\ (req' # req /\ req'.token = mine /\ req'.op = "matchResume") =>
                   /\ res'.status = 200
                   /\ res'.matched = <<>>
    ]_vars

\* C25: whenever no upload and no deletion is in flight, every resumePath a
\* user has names a file of the upload directory, and every file of the
\* upload directory is the resumePath of some user.
C25_PathsAndFilesAgree ==
  (/\ \A s \in LiveSlots : uploads[s].pc \in {"idle", "done"}
   /\ \A s \in DeleteSlots : deletes[s].pc \in {"idle", "done"})
  => /\ \A u \in Users : profile[u].resumePath \subseteq files.dir
     /\ \A f \in files.dir : \E u \in Users : profile[u].resumePath = {f}

\* C23: updateJob never changes a job's owner: whatever the request body
\* holds, a userId field included, every job has the same userId after the
\* update as before.
C23_UpdateKeepsOwner ==
  [][ req'.op = "updateJob" =>
        \A j \in jobs : \A k \in jobs' : k._id = j._id => k.userId = j.userId
    ]_vars

C26_SignupUniqueByEmail ==
  /\ [](\A a \in accounts : \A b \in accounts : a.email = b.email => a = b)
  /\ [][ \A s \in SignupSlots :
           (signups[s].pc \in {"findOne", "create"} /\ signups'[s].pc = "done") =>
             IF \E a \in accounts : a.email = signups[s].email
             THEN signups'[s].out = AuthAnswer(400, "User already exists", {}, {})
             ELSE signups'[s].out.status = 201
       ]_vars

C28_ContextMatchesStorage ==
  /\ client.mounted =>
       /\ client.storage.token = client.token
       /\ client.storage.user = {stringify(user) : user \in client.user}
       /\ (client.token = {}) = (client.user = {})
  /\ client.shown \in Protected => useAuthToken(client) # {}
  /\ useAuthToken(client) = {} => client.shown \in {"/login", "/signup"}
  /\ useAuthToken(client) # {} => client.shown \in Protected

\* C28 witness: bob is logged in (only login puts a token into the
\* context and localStorage), the page was loaded again and the provider
\* has mounted, and /profile is shown
C28_Witness ==
  /\ client.mounted
  /\ client.token = {[id |-> 2, sig |-> "good"]}
  /\ client.storage.user = {stringify([id |-> 2, name |-> "bob", email |-> "b@x.io"])}
  /\ client.shown = "/profile"

\* C29: in the AddJob form an edit of the description clears the pending
\* timer of the previous one, the answer to an extraction started for an
\* earlier description changes neither suggestedKeywords nor
\* selectedKeywords once a newer description has been entered, and once
\* every extraction has settled without an error the suggested keywords
\* are those of the current description.
C29_OnlyCurrentExtractionApplies ==
  /\ [][ form'.description # form.description =>
           \A t \in form'.timer : t.description = form'.description ]_vars
  /\ [][ \A f \in form.fetches :
           (f \notin form'.fetches /\ f.description # form.description) =>
             /\ form'.suggestedKeywords = form.suggestedKeywords
             /\ form'.selectedKeywords = form.selectedKeywords ]_vars
  /\ []( (form.timer = {} /\ form.fetches = {} /\ ~form.keywordError
            /\ form.description # "") =>
           form.suggestedKeywords = Extracted(form.description) )

====
